---- MODULE Spec2Model ----
(***************************************************************************)
(* Stock Trend, RSI & Volume Analyzer (app.py).                            *)
(*                                                                         *)
(* fetch_stock_data turns a provider reply into a data frame carrying the  *)
(* 5/25/75-session moving averages, the Bollinger bounds and RSI(14);      *)
(* draw_chart clears the three axes and plots the trailing 60 sessions;    *)
(* on_click_display is the button callback that ties both together.        *)
(*                                                                         *)
(* Prices are integer ticks and every derived number is an exact rational  *)
(* [kind, num, den] (kind "nan" is pandas' NaN, kind "inf" the float       *)
(* infinity of a division by zero), so that the arithmetic of the code is  *)
(* followed without rounding.  The sign of a float zero or infinity is not *)
(* kept: x / -0.0 is -inf where x / 0.0 is inf, and 100 - 100 / (1 + rs)   *)
(* is 100 for both.  Python index i is element i+1 of a series.            *)
(***************************************************************************)
EXTENDS Integers, Sequences, FiniteSets, TLC

VARIABLES
    fetched,    \* the entry text and the provider's reply of the latest request
    ret,        \* what fetch_stock_data returned to the latest caller
    status,     \* status_label: its text fields and foreground colour
    dialog,     \* the messagebox the latest request showed ("none" if none)
    surface,    \* the artists held by ax1, ax_rsi, ax2 and the canvas draw count
    rendered,   \* the frame handed to the latest draw_chart call (None before)
    outcome     \* how the latest request ended

vars == <<fetched, ret, status, dialog, surface, rendered, outcome>>

(***************************************************************************)
(* Program constants.                                                      *)
(***************************************************************************)
W5MA == 5
W25MA == 25
W75MA == 75
WStd == 25
BandK == 2
WRSI == 14
TailLen == 60
Overbought == 70
Oversold == 30

UpColor == "#10b981"
DownColor == "#ef4444"

(***************************************************************************)
(* Bounds of the explored inputs.                                          *)
(***************************************************************************)
MaxLen == 76        \* longest history the provider returns
MaxStep == 1        \* largest close-to-close move, in ticks
SwitchAt == 30      \* session at which a trend may reverse
StartDate == 100    \* ordinal of the first session of a history

(***************************************************************************)
(* Numbers.                                                                *)
(***************************************************************************)
NaN == [kind |-> "nan", num |-> 0, den |-> 1]
Inf == [kind |-> "inf", num |-> 1, den |-> 1]
Num(n, d) == [kind |-> "num", num |-> n, den |-> d]
IsNum(v) == v.kind = "num"
IsNaN(v) == v.kind = "nan"
None == [kind |-> "None"]

Max2(a, b) == IF a >= b THEN a ELSE b
Min2(a, b) == IF a <= b THEN a ELSE b

\* a / b on floats: 0/0 is NaN, x/0 is infinite, NaN propagates.
Div(a, b) ==
    IF IsNaN(a) \/ IsNaN(b) THEN NaN
    ELSE IF b.num = 0 THEN (IF a.num = 0 THEN NaN ELSE Inf)
    ELSE Num(a.num * b.den, a.den * b.num)

\* 1 + x
OnePlus(x) ==
    IF IsNaN(x) THEN NaN
    ELSE IF x.kind = "inf" THEN Inf
    ELSE Num(x.den + x.num, x.den)

\* 100 / x, for x >= 1 or infinite
HundredOver(x) ==
    IF IsNaN(x) THEN NaN
    ELSE IF x.kind = "inf" THEN Num(0, 1)
    ELSE Div(Num(100, 1), x)

\* the subtraction from 100 left out
HundredMinus_Omitted(x) == x

\* 100 - x
HundredMinus(x) ==
    IF IsNaN(x) THEN NaN
    ELSE Num(100 * x.den - x.num, x.den)

(***************************************************************************)
(* pandas Series operations used by fetch_stock_data.  A series is a       *)
(* sequence of numbers; every operation yields its whole result.           *)
(***************************************************************************)
\* The sequence f[1], ..., f[n].
RECURSIVE Column(_, _, _)
Column(f, n, out) ==
    IF Len(out) >= n THEN out ELSE Column(f, n, Append(out, f[Len(out) + 1]))

\* The window state of Series.rolling(window=w) after each entry: the sum,
\* the sum of squares and the count of the entries inside the window (the
\* entering entry added, the entry leaving the window removed), NaN entries
\* not counted.
RECURSIVE Roll(_, _, _)
Roll(s, w, out) ==
    IF Len(out) >= Len(s) THEN out
    ELSE LET i == Len(out) + 1
             prev == IF i = 1 THEN [sum |-> 0, ssq |-> 0, nobs |-> 0]
                     ELSE out[i - 1]
             enters == IsNum(s[i])
             leaves == i > w /\ IsNum(s[i - w])
             x == IF enters THEN s[i].num ELSE 0
             y == IF leaves THEN s[i - w].num ELSE 0
         IN  Roll(s, w, Append(out,
                 [sum |-> prev.sum + x - y,
                  ssq |-> prev.ssq + x * x - y * y,
                  nobs |-> prev.nobs + (IF enters THEN 1 ELSE 0)
                                     - (IF leaves THEN 1 ELSE 0)]))

\* rolling_mean with min_periods = 1: a value as soon as one entry is seen.
rolling_mean_MinPeriods1(s, w) ==
    LET win == Roll(s, w, <<>>)
    IN  Column([i \in 1..Len(s) |->
                    IF win[i].nobs >= 1 THEN Num(win[i].sum, win[i].nobs)
                    ELSE NaN],
               Len(s), <<>>)

\* Series.rolling(window=w).mean(), min_periods = w.
rolling_mean(s, w) ==
    LET win == Roll(s, w, <<>>)
    IN  Column([i \in 1..Len(s) |->
                    IF win[i].nobs >= w THEN Num(win[i].sum, win[i].nobs)
                    ELSE NaN],
               Len(s), <<>>)

\* Series.rolling(window=w).std(): the sample variance (ddof = 1) of the
\* window, kept as the rational under the square root.
rolling_std(s, w) ==
    LET win == Roll(s, w, <<>>)
    IN  Column([i \in 1..Len(s) |->
                    IF win[i].nobs >= w /\ win[i].nobs > 1
                    THEN Num(win[i].nobs * win[i].ssq - win[i].sum * win[i].sum,
                             win[i].nobs * (win[i].nobs - 1))
                    ELSE NaN],
               Len(s), <<>>)

\* ma + (std * k): the value mean + k*sqrt(var), NaN if either part is.
Band(ma, var, k) ==
    IF IsNaN(ma) \/ IsNaN(var)
    THEN [kind |-> "nan", num |-> 0, den |-> 1, k |-> k, vnum |-> 0, vden |-> 1]
    ELSE [kind |-> "num", num |-> ma.num, den |-> ma.den,
          k |-> k, vnum |-> var.num, vden |-> var.den]

\* diff with the first session's change taken as 0 instead of NaN.
diff_ZeroFirst(s) ==
    Column([i \in 1..Len(s) |->
                IF i = 1 THEN Num(0, 1)
                ELSE IF IsNaN(s[i]) \/ IsNaN(s[i - 1]) THEN NaN
                ELSE Num(s[i].num - s[i - 1].num, 1)],
           Len(s), <<>>)

\* Series.diff(): NaN at the first session.
diff(s) ==
    Column([i \in 1..Len(s) |->
                IF i = 1 \/ IsNaN(s[i]) \/ IsNaN(s[i - 1]) THEN NaN
                ELSE Num(s[i].num - s[i - 1].num, 1)],
           Len(s), <<>>)

\* Series.clip(lower=0)
clip_lower0(s) ==
    Column([i \in 1..Len(s) |->
                IF IsNaN(s[i]) THEN NaN ELSE Num(Max2(s[i].num, 0), 1)],
           Len(s), <<>>)

\* Series.clip(upper=0)
clip_upper0(s) ==
    Column([i \in 1..Len(s) |->
                IF IsNaN(s[i]) THEN NaN ELSE Num(Min2(s[i].num, 0), 1)],
           Len(s), <<>>)

\* -Series
neg(s) ==
    Column([i \in 1..Len(s) |->
                IF IsNaN(s[i]) THEN NaN ELSE Num(0 - s[i].num, 1)],
           Len(s), <<>>)

\* The Close column as numbers.
CloseSeries(bars) ==
    Column([i \in 1..Len(bars) |-> Num(bars[i].Close, 1)], Len(bars), <<>>)

(***************************************************************************)
(* 1. fetch_stock_data                                                     *)
(*                                                                         *)
(* A provider reply is [history, bars, info]: history is "raise" when      *)
(* stock.history() raises, "none" when it yields no frame at all, and      *)
(* "frame" when it yields the frame whose rows are bars (possibly none);   *)
(* info is [kind, shortName, longName], kind "raise" when stock.info       *)
(* raises; texts are sequences of characters, an absent name is empty.     *)
(***************************************************************************)
NoResult == [raised |-> FALSE, df |-> None, company_name |-> None]
Raised == [raised |-> TRUE, df |-> None, company_name |-> None]

\* info.get('shortName') or info.get('longName') or ticker
CompanyName(info, ticker) ==
    IF info.shortName # <<>> THEN info.shortName
    ELSE IF info.longName # <<>> THEN info.longName
    ELSE ticker

\* diff, gain, loss, the two 14-session means, rs and RSI.
RSIColumn(close) ==
    LET d == diff(close)
        gain == clip_lower0(d)
        loss == neg(clip_upper0(d))
        avg_gain == rolling_mean(gain, WRSI)
        avg_loss == rolling_mean(loss, WRSI)
    IN  Column([i \in 1..Len(close) |->
                    HundredMinus(HundredOver(OnePlus(Div(avg_gain[i], avg_loss[i]))))],
               Len(close), <<>>)

\* The frame with its derived columns, computed over every row.
Enrich(bars) ==
    LET close == CloseSeries(bars)
        ma25 == rolling_mean(close, W25MA)
        std == rolling_std(close, WStd)
        n == Len(bars)
    IN  [kind |-> "frame",
         Date |-> Column([i \in 1..n |-> bars[i].Date], n, <<>>),
         Open |-> Column([i \in 1..n |-> bars[i].Open], n, <<>>),
         Close |-> Column([i \in 1..n |-> bars[i].Close], n, <<>>),
         Volume |-> Column([i \in 1..n |-> bars[i].Volume], n, <<>>),
         MA5 |-> rolling_mean(close, W5MA),
         MA25 |-> ma25,
         MA75 |-> rolling_mean(close, W75MA),
         Upper |-> Column([i \in 1..n |-> Band(ma25[i], std[i], BandK)], n, <<>>),
         Lower |-> Column([i \in 1..n |-> Band(ma25[i], std[i], 0 - BandK)], n, <<>>),
         RSI |-> RSIColumn(close)]

\* FetchBody without the df.empty test.
FetchBody_NoEmptyTest(ticker, reply) ==
    IF reply.history = "raise" THEN Raised
    ELSE IF reply.history = "none" THEN Raised
    ELSE IF reply.info.kind = "raise" THEN Raised
    ELSE [raised |-> FALSE,
          df |-> Enrich(reply.bars),
          company_name |-> CompanyName(reply.info, ticker)]

\* The statements of the try block; raised marks an exception leaving them:
\* stock.history() raising, df.empty on a missing frame, stock.info raising.
FetchBody(ticker, reply) ==
    IF reply.history = "raise" THEN Raised
    ELSE IF reply.history = "none" THEN Raised
    ELSE IF Len(reply.bars) = 0 THEN NoResult
    ELSE IF reply.info.kind = "raise" THEN Raised
    ELSE [raised |-> FALSE,
          df |-> Enrich(reply.bars),
          company_name |-> CompanyName(reply.info, ticker)]

\* fetch_stock_data without its try/except.
fetch_stock_data_NoExcept(ticker, reply) == FetchBody(ticker, reply)

\* try: ... except Exception: return None, None
fetch_stock_data(ticker, reply) ==
    LET r == FetchBody(ticker, reply)
    IN  IF r.raised THEN NoResult ELSE r

(***************************************************************************)
(* Histories the provider may return: closes start at BaseClose and move   *)
(* by a two-session pattern of steps, which may reverse sign at SwitchAt;  *)
(* opens alternate below, at and above the close.                          *)
(***************************************************************************)
BaseClose == MaxStep * (MaxLen + 2) + 1
Steps == (0 - MaxStep)..MaxStep
Patterns == Steps \X Steps

StepAt(pat, rev, i) ==
    LET d == pat[(i % 2) + 1]
    IN  IF rev /\ i > SwitchAt THEN 0 - d ELSE d

RECURSIVE Closes(_, _, _, _)
Closes(pat, rev, n, out) ==
    IF Len(out) >= n THEN out
    ELSE IF out = <<>> THEN Closes(pat, rev, n, <<BaseClose>>)
    ELSE Closes(pat, rev, n,
                Append(out, out[Len(out)] + StepAt(pat, rev, Len(out) + 1)))

History(pat, rev, n) ==
    LET c == Closes(pat, rev, n, <<>>)
    IN  Column([i \in 1..n |->
                    [Date |-> StartDate + i,
                     Open |-> c[i] + ((i % 3) - 1),
                     Close |-> c[i],
                     Volume |-> 100 * ((7 * i) % 5)]],
               n, <<>>)

ShortName == <<"T", "O", "Y", "O", "T", "A">>
LongName == <<"T", "O", "Y", "O", "T", "A", " ", "M", "O", "T", "O", "R">>
Names == [kind |-> "ok", shortName |-> ShortName, longName |-> LongName]
LongOnly == [kind |-> "ok", shortName |-> <<>>, longName |-> LongName]
NoNames == [kind |-> "ok", shortName |-> <<>>, longName |-> <<>>]
InfoRaises == [kind |-> "raise", shortName |-> <<>>, longName |-> <<>>]

Reply(h, bars, info) == [history |-> h, bars |-> bars, info |-> info]

Unasked == Reply("unasked", <<>>, NoNames)
DefaultEntry == <<"7", "2", "0", "3", ".", "T">>

AllHistories ==
    {History(pat, rev, n) : pat \in Patterns, rev \in BOOLEAN, n \in 0..MaxLen}

ComputeReplies ==
    {Reply("frame", b, Names) : b \in AllHistories}
        \cup {Reply("raise", <<>>, Names), Reply("none", <<>>, Names)}


(***************************************************************************)
(* The indicator computation alone: one call of fetch_stock_data on each   *)
(* reply.                                                                  *)
(***************************************************************************)
NotCalled == [raised |-> FALSE, df |-> [kind |-> "pending"], company_name |-> None]

NoText == [kind |-> "none", tenths |-> 0]

InitialStatus ==
    [kind |-> "initial", ticker |-> <<>>, name |-> <<>>, price |-> NoText,
     time |-> <<>>, rsi |-> NoText, fg |-> ""]

EmptySurface == [ax1 |-> <<>>, ax_rsi |-> <<>>, ax2 |-> <<>>, title |-> <<>>]

InitCompute ==
    /\ fetched \in {[entry |-> DefaultEntry, reply |-> r] : r \in ComputeReplies}
    /\ ret = NotCalled
    /\ status = InitialStatus
    /\ dialog = "none"
    /\ surface = EmptySurface
    /\ rendered = None
    /\ outcome = "idle"

CallFetch ==
    /\ ret = NotCalled
    /\ ret' = fetch_stock_data(fetched.entry, fetched.reply)
    /\ UNCHANGED <<fetched, status, dialog, surface, rendered, outcome>>

NextCompute == CallFetch

SpecCompute == InitCompute /\ [][NextCompute]_vars

(***************************************************************************)
(* 2. draw_chart                                                           *)
(***************************************************************************)
\* tail that keeps one session more than asked.
TailSeq_OneMore(s, n) == IF Len(s) <= n THEN s ELSE SubSeq(s, Len(s) - n, Len(s))

\* Series.tail(n)
TailSeq(s, n) == IF Len(s) <= n THEN s ELSE SubSeq(s, Len(s) - n + 1, Len(s))

\* tail that recomputes the derived columns over the slice.
tail_Recomputed(df, n) ==
    LET d == TailSeq(df.Date, n)
        o == TailSeq(df.Open, n)
        c == TailSeq(df.Close, n)
        v == TailSeq(df.Volume, n)
    IN  Enrich(Column([i \in 1..Len(d) |->
                           [Date |-> d[i], Open |-> o[i], Close |-> c[i],
                            Volume |-> v[i]]],
                      Len(d), <<>>))

\* df.tail(n): the trailing n rows of every column.
tail(df, n) ==
    [kind |-> "frame",
     Date |-> TailSeq(df.Date, n),
     Open |-> TailSeq(df.Open, n),
     Close |-> TailSeq(df.Close, n),
     Volume |-> TailSeq(df.Volume, n),
     MA5 |-> TailSeq(df.MA5, n),
     MA25 |-> TailSeq(df.MA25, n),
     MA75 |-> TailSeq(df.MA75, n),
     Upper |-> TailSeq(df.Upper, n),
     Lower |-> TailSeq(df.Lower, n),
     RSI |-> TailSeq(df.RSI, n)]

\* a clear that leaves the artists in place
Clear_Keep(ax) == ax

\* ax.clear()
Clear(ax) == <<>>

Line(label, x, y, color) ==
    [type |-> "line", label |-> label, x |-> x, y |-> y, color |-> color]
Fill(label, x, y1, y2, color) ==
    [type |-> "fill", label |-> label, x |-> x, y |-> y1, y2 |-> y2, color |-> color]
HLine(y, color) == [type |-> "hline", label |-> "", y |-> y, color |-> color]
Bars(x, height, colors) ==
    [type |-> "bar", x |-> x, y |-> height, colors |-> colors]

\* the comparison written strictly
BarColor_Strict(close, open) == IF close > open THEN UpColor ELSE DownColor

\* '#10b981' if row['Close'] >= row['Open'] else '#ef4444'
BarColor(close, open) == IF close >= open THEN UpColor ELSE DownColor

PricePanel(ax, p) ==
    ax \o <<Fill("Bollinger(2s)", p.Date, p.Lower, p.Upper, "#3b82f6"),
            Line("", p.Date, p.Upper, "#3b82f6"),
            Line("", p.Date, p.Lower, "#3b82f6"),
            Line("Price", p.Date, p.Close, "#1f2937"),
            Line("5MA", p.Date, p.MA5, "#3b82f6"),
            Line("25MA", p.Date, p.MA25, "#ef4444"),
            Line("75MA", p.Date, p.MA75, "#10b981")>>

RSIPanel(ax, p) ==
    ax \o <<Line("RSI(14)", p.Date, p.RSI, "#8b5cf6"),
            HLine(Overbought, "#ef4444"),
            HLine(Oversold, "#3b82f6")>>

VolumePanel(ax, p) ==
    ax \o <<Bars(p.Date, p.Volume,
                 Column([j \in 1..Len(p.Date) |-> BarColor(p.Close[j], p.Open[j])],
                        Len(p.Date), <<>>))>>

draw_chart(df, display_name, surf) ==
    LET plot_df == tail(df, TailLen)
    IN  [ax1 |-> PricePanel(Clear(surf.ax1), plot_df),
         ax_rsi |-> RSIPanel(Clear(surf.ax_rsi), plot_df),
         ax2 |-> VolumePanel(Clear(surf.ax2), plot_df),
         title |-> display_name]

(***************************************************************************)
(* 3. on_click_display                                                     *)
(***************************************************************************)
LowerCase == <<"a", "b", "c", "d", "e", "f", "g", "h", "i", "j", "k", "l", "m",
               "n", "o", "p", "q", "r", "s", "t", "u", "v", "w", "x", "y", "z">>
UpperCase == <<"A", "B", "C", "D", "E", "F", "G", "H", "I", "J", "K", "L", "M",
               "N", "O", "P", "Q", "R", "S", "T", "U", "V", "W", "X", "Y", "Z">>
IsSpace(c) == c \in {" ", "\t", "\n"}

RECURSIVE lstrip(_)
lstrip(t) == IF t # <<>> /\ IsSpace(Head(t)) THEN lstrip(Tail(t)) ELSE t

RECURSIVE rstrip(_)
rstrip(t) ==
    IF t # <<>> /\ IsSpace(t[Len(t)]) THEN rstrip(SubSeq(t, 1, Len(t) - 1)) ELSE t

strip(t) == rstrip(lstrip(t))

upper(t) ==
    Column([i \in 1..Len(t) |->
                IF \E k \in 1..26 : LowerCase[k] = t[i]
                THEN UpperCase[CHOOSE k \in 1..26 : LowerCase[k] = t[i]]
                ELSE t[i]],
           Len(t), <<>>)

\* format(v, ".1f"): the nearest tenth (ties to even); nan and inf by name.
Format1f(v) ==
    IF v.kind # "num" THEN [kind |-> v.kind, tenths |-> 0]
    ELSE LET n == 10 * v.num
             q == n \div v.den
             r == n % v.den
             up == 2 * r > v.den \/ (2 * r = v.den /\ q % 2 = 1)
         IN  [kind |-> "num", tenths |-> IF up THEN q + 1 ELSE q]

\* datetime.strftime("%H:%M:%S"): two digits per field.
strftime(now) == Column([i \in 1..3 |-> <<now[i] \div 10, now[i] % 10>>], 3, <<>>)

\* Series.iloc[-1]; raised marks the IndexError of an empty series.
ILocLast(s) ==
    IF Len(s) = 0 THEN [raised |-> TRUE, value |-> NaN]
    ELSE [raised |-> FALSE, value |-> s[Len(s)]]

Entries == {<<>>, <<" ">>, <<" ", "7", "2", "0", "3", ".", "t", " ">>,
            <<"A", "A", "P", "L">>}
Clock == {<<9, 5, 30>>}

UILens == {1, WRSI + 1, TailLen, TailLen + 1, MaxLen}
UIPatterns == {<<0, 0>>, <<MaxStep, MaxStep>>, <<MaxStep, 0>>}
UIHistories == {History(pat, TRUE, n) : pat \in UIPatterns, n \in UILens}

UIReplies ==
    {Reply("frame", b, Names) : b \in UIHistories}
        \cup {Reply("frame", History(<<MaxStep, 0>>, TRUE, WRSI + 1), i) :
                i \in {LongOnly, NoNames, InfoRaises}}
        \cup {Reply("raise", <<>>, Names), Reply("none", <<>>, Names),
              Reply("frame", <<>>, Names)}

\* The calls of fetch_stock_data the window can make, each evaluated once.
FetchTable ==
    [t \in {upper(strip(e)) : e \in Entries} |->
        [rp \in UIReplies |-> fetch_stock_data(t, rp)]]

Fetched(ticker, reply) ==
    IF ticker \in DOMAIN FetchTable /\ reply \in DOMAIN FetchTable[ticker]
    THEN FetchTable[ticker][reply]
    ELSE fetch_stock_data(ticker, reply)

on_click_display(entry, reply, now) ==
    LET ticker == upper(strip(entry))
        r == Fetched(ticker, reply)
        price == ILocLast(r.df.Close)
        rsi == ILocLast(r.df.RSI)
    IN  IF ticker = <<>>
        THEN /\ dialog' = "warning"
             /\ outcome' = "rejected"
             /\ fetched' = [entry |-> entry, reply |-> Unasked]
             /\ ret' = NotCalled
             /\ UNCHANGED <<status, surface, rendered>>
        ELSE /\ fetched' = [entry |-> entry, reply |-> reply]
             /\ ret' = r
             /\ IF r.raised
                THEN /\ outcome' = "exception"
                     /\ dialog' = "none"
                     /\ UNCHANGED <<status, surface, rendered>>
                ELSE IF r.df.kind # "None"
                THEN IF price.raised
                     THEN /\ outcome' = "exception"
                          /\ dialog' = "none"
                          /\ UNCHANGED <<status, surface, rendered>>
                     ELSE /\ status' = [kind |-> "ok", ticker |-> ticker,
                                        name |-> r.company_name,
                                        price |-> Format1f(Num(price.value, 1)),
                                        time |-> strftime(now),
                                        rsi |-> Format1f(rsi.value),
                                        fg |-> "#1f2937"]
                          /\ surface' = draw_chart(r.df, r.company_name, surface)
                          /\ rendered' = r.df
                          /\ dialog' = "none"
                          /\ outcome' = "success"
                ELSE /\ status' = [kind |-> "Fetch Failed", ticker |-> <<>>,
                                   name |-> <<>>, price |-> NoText, time |-> <<>>,
                                   rsi |-> NoText, fg |-> "#ef4444"]
                     /\ dialog' = "error"
                     /\ outcome' = "NotFound"
                     /\ UNCHANGED <<surface, rendered>>

(***************************************************************************)
(* The window: a sequence of button presses, each with the entry text the  *)
(* user typed and the reply the provider gives.                            *)
(***************************************************************************)
Init ==
    /\ fetched = [entry |-> DefaultEntry, reply |-> Unasked]
    /\ ret = NotCalled
    /\ status = InitialStatus
    /\ dialog = "none"
    /\ surface = EmptySurface
    /\ rendered = None
    /\ outcome = "idle"

Next ==
    \E entry \in Entries, reply \in UIReplies, now \in Clock :
        on_click_display(entry, reply, now)

Spec == Init /\ [][Next]_vars

(***************************************************************************)
(* Reference arithmetic for the properties below, written from the         *)
(* definitions of the indicators and not from the rolling computation.     *)
(* c is a sequence of closes; i is a 0-based session index as in Python.   *)
(***************************************************************************)
RECURSIVE SumRange(_, _, _)
SumRange(f, lo, hi) == IF lo > hi THEN 0 ELSE f[lo] + SumRange(f, lo + 1, hi)

ClosesOf(bars) == [i \in 1..Len(bars) |-> bars[i].Close]

\* v is the arithmetic mean of c at sessions i-w+1 .. i
IsMeanOf(v, c, i, w) ==
    IsNum(v) /\ v.num * w = v.den * SumRange(c, i - w + 2, i + 1)

GainAt(c, j) == Max2(c[j + 1] - c[j], 0)
LossAt(c, j) == Max2(c[j] - c[j + 1], 0)

RECURSIVE GainSum(_, _, _)
GainSum(c, lo, hi) == IF lo > hi THEN 0 ELSE GainAt(c, lo) + GainSum(c, lo + 1, hi)
RECURSIVE LossSum(_, _, _)
LossSum(c, lo, hi) == IF lo > hi THEN 0 ELSE LossAt(c, lo) + LossSum(c, lo + 1, hi)

\* the 14 close-to-close changes ending at session i
NonDecreasingWindow(c, i) == \A j \in (i - WRSI + 1)..i : c[j + 1] >= c[j]
FlatWindow(c, i) == \A j \in (i - WRSI + 1)..i : c[j + 1] = c[j]
StrictlyIncreasing(c) == \A j \in 1..(Len(c) - 1) : c[j + 1] > c[j]

IsHundred(v) == IsNum(v) /\ v.num = 100 * v.den
InZeroHundred(v) == IsNum(v) /\ v.den > 0 /\ 0 <= v.num /\ v.num <= 100 * v.den

MAColumn(df, w) ==
    CASE w = W5MA -> df.MA5
      [] w = W25MA -> df.MA25
      [] w = W75MA -> df.MA75

Computed == ret.df.kind = "frame"
InputCloses == ClosesOf(fetched.reply.bars)

(***************************************************************************)
(* C3.  For every input series of length L and every window w in           *)
(* {5, 25, 75}, the moving average at index i is undefined iff i < w-1 and *)
(* for i >= w-1 equals the arithmetic mean of close[i-w+1 .. i]; a series  *)
(* shorter than w is a valid input (a frame is returned) whose window-w    *)
(* average is undefined at every index.                                    *)
(***************************************************************************)
MovingAverageLaw ==
    /\ (ret # NotCalled /\ Len(fetched.reply.bars) > 0
            /\ fetched.reply.history = "frame") => Computed
    /\ Computed =>
        \A w \in {W5MA, W25MA, W75MA} :
            LET col == MAColumn(ret.df, w)
                L == Len(fetched.reply.bars)
            IN  /\ Len(col) = L
                /\ \A i \in 0..(L - 1) :
                      /\ IsNaN(col[i + 1]) <=> i < w - 1
                      /\ i >= w - 1 => IsMeanOf(col[i + 1], InputCloses, i, w)

\* a history longer than the longest window, with moving closes, computed
MovingAverageWitness ==
    /\ Computed
    /\ Len(ret.df.Close) > W75MA
    /\ IsNum(ret.df.MA75[Len(ret.df.Close)])
    /\ IsNaN(ret.df.MA75[W75MA - 1])
    /\ ret.df.Close[1] # ret.df.Close[2]

RSIWarmUp ==
    Computed =>
        LET L == Len(ret.df.RSI)
        IN  /\ \A i \in 0..(L - 1) : i < WRSI => IsNaN(ret.df.RSI[i + 1])
            /\ (L > WRSI /\ ~FlatWindow(InputCloses, WRSI))
                    => IsNum(ret.df.RSI[WRSI + 1])
            /\ (L = W75MA /\ StrictlyIncreasing(InputCloses)) =>
                    /\ \A i \in WRSI..(L - 1) : IsHundred(ret.df.RSI[i + 1])
                    /\ \A i \in 0..(L - 1) :
                          IsNum(ret.df.MA75[i + 1]) <=> i = W75MA - 1

\* the 75-bar strictly increasing scenario, computed
RSIWarmUpWitness ==
    /\ Computed
    /\ Len(ret.df.RSI) = W75MA
    /\ StrictlyIncreasing(InputCloses)
    /\ IsNaN(ret.df.RSI[WRSI])
    /\ IsHundred(ret.df.RSI[WRSI + 1])
    /\ IsNum(ret.df.MA75[W75MA])

(***************************************************************************)
(* The window: what a request was given, and what is on the axes.          *)
(***************************************************************************)
Asked == fetched.reply.history # "unasked"
NoHistory(reply) ==
    \/ reply.history \in {"raise", "none"}
    \/ reply.history = "frame" /\ Len(reply.bars) = 0
    \/ reply.history = "frame" /\ reply.info.kind = "raise"

Shown == rendered.kind = "frame"
WinLen == Min2(Len(rendered.Date), TailLen)
Off == Len(rendered.Date) - WinLen

\* artist a plots exactly the sessions of the display window
CoversWindow(a) ==
    /\ Len(a.x) = WinLen
    /\ Len(a.y) = WinLen
    /\ \A j \in 1..WinLen : a.x[j] = rendered.Date[Off + j]

PanelCoversWindow(ax) ==
    /\ \E k \in 1..Len(ax) : ax[k].type # "hline"
    /\ \A k \in 1..Len(ax) : ax[k].type # "hline" => CoversWindow(ax[k])

\* One step of the window seen from a request that got no history.
NotFoundStep ==
    (fetched'.reply.history # "unasked" /\ NoHistory(fetched'.reply)) =>
        /\ outcome' = "NotFound"
        /\ ret' = NoResult
        /\ status'.kind = "Fetch Failed"
        /\ status'.fg = "#ef4444"
        /\ dialog' = "error"
        /\ surface' = surface
        /\ rendered' = rendered

(***************************************************************************)
(* C1.  A request whose fetch returns an empty or missing history, or      *)
(* raises, ends NotFound: fetch_stock_data returns (None, None), the       *)
(* status shows the failure text, the error notification is shown,         *)
(* draw_chart is not called and the surface is exactly as before.          *)
(***************************************************************************)
NotFoundLeavesSurface == [][NotFoundStep]_vars

\* a failed request made while a chart is on the surface
NotFoundWitness ==
    /\ outcome = "NotFound"
    /\ fetched.reply.history = "frame"
    /\ Len(fetched.reply.bars) = 0
    /\ Shown
    /\ Len(surface.ax1) > 0

(***************************************************************************)
(* C2.  Every request with a non-empty ticker ends in exactly one of       *)
(* success (status updated, chart drawn) or NotFound (failure status       *)
(* shown); no exception leaves the request, whatever the fetch returned,   *)
(* histories shorter than every indicator window included.                 *)
(***************************************************************************)
TerminalOutcome ==
    /\ outcome # "exception"
    /\ Asked =>
        \/ /\ outcome = "success"
           /\ ~NoHistory(fetched.reply)
           /\ status.kind = "ok"
           /\ ret.df.kind = "frame"
           /\ rendered = ret.df
           /\ Len(surface.ax1) > 0
        \/ /\ outcome = "NotFound"
           /\ NoHistory(fetched.reply)
           /\ status.kind = "Fetch Failed"
           /\ dialog = "error"

\* a successful request on a history shorter than the shortest window
ShortHistoryWitness ==
    /\ outcome = "success"
    /\ Len(fetched.reply.bars) < W5MA
    /\ Len(fetched.reply.bars) > 0
    /\ status.kind = "ok"
    /\ status.rsi.kind = "nan"

(***************************************************************************)
(* C4 as claimed.  At every index i >= 14 whose trailing 14 changes are    *)
(* all zero, rsi is one fixed sentinel number, not NaN: in the enriched    *)
(* frame, in the RSI panel's series and in the status text's RSI field.    *)
(***************************************************************************)
FlatWindowSentinel ==
    outcome = "success" =>
        LET c == rendered.Close
            L == Len(c)
        IN  /\ \A i \in WRSI..(L - 1) :
                  FlatWindow(c, i) =>
                      /\ IsNum(ret.df.RSI[i + 1])
                      /\ \A k \in WRSI..(L - 1) :
                            FlatWindow(c, k) => ret.df.RSI[k + 1] = ret.df.RSI[i + 1]
            /\ \A j \in 1..WinLen :
                  (Off + j - 1 >= WRSI /\ FlatWindow(c, Off + j - 1))
                      => IsNum(surface.ax_rsi[1].y[j])
            /\ (L - 1 >= WRSI /\ FlatWindow(c, L - 1)) => status.rsi.kind = "num"

(***************************************************************************)
(* C7.  For an enriched series of length L, each of the three panels       *)
(* plots exactly the trailing min(L, 60) sessions: never more than the     *)
(* window size, and all panels over the identical dates.                   *)
(***************************************************************************)
PanelsShareWindow ==
    Shown =>
        /\ WinLen <= TailLen
        /\ PanelCoversWindow(surface.ax1)
        /\ PanelCoversWindow(surface.ax_rsi)
        /\ PanelCoversWindow(surface.ax2)
        /\ Len(surface.ax1[1].y2) = WinLen
        /\ Len(surface.ax2[1].colors) = WinLen

\* a history longer than the window on the surface, cut to the window
PanelsShareWindowWitness ==
    /\ Shown
    /\ Len(rendered.Date) > TailLen
    /\ Len(surface.ax2[1].x) = TailLen
    /\ surface.ax1[4].x[1] = rendered.Date[Len(rendered.Date) - TailLen + 1]

(***************************************************************************)
(* C8.  For every session in the display window the volume bar has the up  *)
(* colour if close >= open and the down colour otherwise; a tie is         *)
(* coloured up; the colour depends only on that session's close and open.  *)
(***************************************************************************)
VolumeColours ==
    Shown =>
        LET b == surface.ax2[1]
        IN  /\ b.type = "bar"
            /\ \A j \in 1..WinLen :
                  b.colors[j] = IF rendered.Close[Off + j] >= rendered.Open[Off + j]
                                THEN UpColor ELSE DownColor
            /\ \A j, k \in 1..WinLen :
                  (/\ rendered.Close[Off + j] = rendered.Close[Off + k]
                   /\ rendered.Open[Off + j] = rendered.Open[Off + k])
                      => b.colors[j] = b.colors[k]

\* a window holding an up day, a tie and a down day, coloured up, up, down
VolumeColoursWitness ==
    /\ Shown
    /\ \E j \in 1..WinLen :
          /\ rendered.Close[Off + j] = rendered.Open[Off + j]
          /\ surface.ax2[1].colors[j] = UpColor
    /\ \E j \in 1..WinLen :
          /\ rendered.Close[Off + j] > rendered.Open[Off + j]
          /\ surface.ax2[1].colors[j] = UpColor
    /\ \E j \in 1..WinLen :
          /\ rendered.Close[Off + j] < rendered.Open[Off + j]
          /\ surface.ax2[1].colors[j] = DownColor

RECURSIVE SumSqRange(_, _, _)
SumSqRange(f, lo, hi) ==
    IF lo > hi THEN 0 ELSE f[lo] * f[lo] + SumSqRange(f, lo + 1, hi)

\* v is the w-session average of the full history c at its session i
IsAverageAt(v, c, i, w) ==
    /\ IsNaN(v) <=> i < w - 1
    /\ i >= w - 1 => IsMeanOf(v, c, i, w)

\* v is mean + k * sample deviation of the full history c at its session i
IsBandAt(v, c, i, k) ==
    /\ IsNaN(v) <=> i < WStd - 1
    /\ i >= WStd - 1 =>
          LET sum == SumRange(c, i - WStd + 2, i + 1)
              ssq == SumSqRange(c, i - WStd + 2, i + 1)
          IN  /\ v.num * W25MA = v.den * SumRange(c, i - W25MA + 2, i + 1)
              /\ v.k = k
              /\ v.vnum * (WStd * (WStd - 1)) = v.vden * (WStd * ssq - sum * sum)

\* v is the 14-session RSI of the full history c at its session i
IsRSIAt(v, c, i) ==
    IF i < WRSI THEN IsNaN(v)
    ELSE LET g == GainSum(c, i - WRSI + 1, i)
             l == LossSum(c, i - WRSI + 1, i)
         IN  IF g + l = 0 THEN IsNaN(v)
             ELSE IsNum(v) /\ v.num * (g + l) = 100 * g * v.den

(***************************************************************************)
(* C9.  The display window does not affect the indicator values: for each  *)
(* session shown, every derived value drawn (the three moving averages,    *)
(* both band bounds, rsi) is the value of the full retrieved history at    *)
(* that session, so a shown session has a defined window-w average         *)
(* whenever its index in the full history is >= w-1.                       *)
(***************************************************************************)
DrawnFromFullHistory ==
    Shown =>
        \A j \in 1..WinLen :
            LET i == Off + j - 1
                c == rendered.Close
            IN  /\ IsAverageAt(surface.ax1[5].y[j], c, i, W5MA)
                /\ IsAverageAt(surface.ax1[6].y[j], c, i, W25MA)
                /\ IsAverageAt(surface.ax1[7].y[j], c, i, W75MA)
                /\ IsBandAt(surface.ax1[2].y[j], c, i, BandK)
                /\ IsBandAt(surface.ax1[3].y[j], c, i, 0 - BandK)
                /\ IsBandAt(surface.ax1[1].y[j], c, i, 0 - BandK)
                /\ IsBandAt(surface.ax1[1].y2[j], c, i, BandK)
                /\ IsRSIAt(surface.ax_rsi[1].y[j], c, i)

\* a history longer than the window: the first shown session already has
\* its short average, band and rsi, and the last one its long average
DrawnFromFullHistoryWitness ==
    /\ Shown
    /\ Off > 0
    /\ Off + 1 < W25MA
    /\ IsNum(surface.ax1[5].y[1])
    /\ IsNum(surface.ax_rsi[1].y[1])
    /\ IsNaN(surface.ax1[6].y[1])
    /\ IsNum(surface.ax1[7].y[WinLen])

(***************************************************************************)
(* C10.  After any sequence of requests the surface holds exactly the      *)
(* series of the most recent successful render: each draw_chart clears     *)
(* the three panels and repopulates them, nothing of an earlier render     *)
(* remains and the artists per panel do not grow with the renders.         *)
(***************************************************************************)
SurfaceIsLatestRender ==
    /\ ~Shown => surface = EmptySurface
    /\ outcome = "success" => (ret.df.kind = "frame" /\ rendered = ret.df)
    /\ Shown =>
          /\ Len(surface.ax1) = 7
          /\ Len(surface.ax_rsi) = 3
          /\ Len(surface.ax2) = 1
          /\ PanelCoversWindow(surface.ax1)
          /\ PanelCoversWindow(surface.ax_rsi)
          /\ PanelCoversWindow(surface.ax2)
          /\ \A j \in 1..WinLen :
                /\ surface.ax1[4].y[j] = rendered.Close[Off + j]
                /\ surface.ax2[1].y[j] = rendered.Volume[Off + j]
          /\ surface.ax_rsi[2].type = "hline"
          /\ surface.ax_rsi[3].type = "hline"

\* a failed request after a render: the render is still what the surface holds
LatestRenderWitness ==
    /\ Shown
    /\ outcome = "NotFound"
    /\ fetched.reply.history = "raise"
    /\ Len(surface.ax1) = 7
    /\ Len(surface.ax2[1].x) = WinLen
====
